---- MODULE Spec2Model ----
(***************************************************************************)
(* theme-ai (src/theme-ai.mjs): one run of the command-line analysis.      *)
(*                                                                         *)
(* Strings the program inspects character by character (file names, file   *)
(* contents, engines.node constraints, the chat reply) are sequences of    *)
(* one-character strings; strings it only compares or uses as object keys  *)
(* (package names, dependency versions, messages) are plain strings.       *)
(***************************************************************************)
EXTENDS Integers, Sequences, FiniteSets, TLC

\* ------------------------------------------------------------ bounds

\* Largest number of entries in the mapping printed by `npm outdated --json`.
MaxOutdated == 2

\* Largest number of files in the project tree of a detection-only run.
MaxTreeFiles == 2

\* ------------------------------------------------------------ strings

Digits == {"0", "1", "2", "3", "4", "5", "6", "7", "8", "9"}

\* String.prototype.endsWith
EndsWith(s, suffix) ==
    /\ Len(s) >= Len(suffix)
    /\ SubSeq(s, Len(s) - Len(suffix) + 1, Len(s)) = suffix

\* String.prototype.includes
Includes(s, sub) ==
    \E i \in 1..(Len(s) - Len(sub) + 1) : SubSeq(s, i, i + Len(sub) - 1) = sub

IsSpace(c) == c \in {" ", "\t", "\n"}

\* String.prototype.trim
RECURSIVE TrimStart(_)
TrimStart(s) ==
    IF s # <<>> /\ IsSpace(Head(s)) THEN TrimStart(Tail(s)) ELSE s

RECURSIVE TrimEnd(_)
TrimEnd(s) ==
    IF s # <<>> /\ IsSpace(s[Len(s)]) THEN TrimEnd(SubSeq(s, 1, Len(s) - 1)) ELSE s

Trim(s) == TrimEnd(TrimStart(s))

\* ------------------------------------------------------------ project tree

\* A project tree is a set of files, each [path, content]; path is the
\* sequence of names below the project root. A directory exists when a file
\* lies below it.
IsPrefix(p, q) == Len(p) <= Len(q) /\ SubSeq(q, 1, Len(p)) = p

\* fs.existsSync(path.join(projectRoot, p))
ExistsSync(t, p) == \E f \in t : IsPrefix(p, f.path)

\* fs.readdirSync(dir, { withFileTypes: true }): the names in dir
ReadDir(t, dir) ==
    { f.path[Len(dir) + 1] : f \in { g \in t : IsPrefix(dir, g.path) /\ Len(g.path) > Len(dir) } }

\* Dirent.isDirectory() / Dirent.isFile()
IsDirectory(t, p) == \E f \in t : IsPrefix(p, f.path) /\ Len(f.path) > Len(p)
IsFile(t, p) == \E f \in t : f.path = p

ReadFile(t, p) == (CHOOSE f \in t : f.path = p).content

\* scanForFiles's ignoredDirs without 'vendor'
ignoredDirsNoVendor == { <<"n", "o", "d", "e", "_", "m", "o", "d", "u", "l", "e", "s">>, <<".", "g", "i", "t">>, <<"d", "i", "s", "t">>, <<"b", "u", "i", "l", "d">> }

ignoredDirs == { <<"n", "o", "d", "e", "_", "m", "o", "d", "u", "l", "e", "s">>, <<".", "g", "i", "t">>, <<"d", "i", "s", "t">>, <<"b", "u", "i", "l", "d">>, <<"v", "e", "n", "d", "o", "r">> }

\* walk(dir) of scanForFiles: the set of paths pushed to result
RECURSIVE walk(_, _, _)
walk(t, ext, dir) ==
    IF ~ExistsSync(t, dir) THEN {}
    ELSE UNION { IF IsDirectory(t, Append(dir, name)) /\ name \notin ignoredDirs
                   THEN walk(t, ext, Append(dir, name))
                   ELSE IF EndsWith(name, ext) THEN { Append(dir, name) } ELSE {}
                 : name \in ReadDir(t, dir) }

scanForFiles(t, ext) == walk(t, ext, <<>>)

stackMatchers == <<
    [file |-> << <<"w", "e", "b", "p", "a", "c", "k", ".", "c", "o", "n", "f", "i", "g", ".", "j", "s">> >>, label |-> "Webpack"],
    [file |-> << <<"v", "i", "t", "e", ".", "c", "o", "n", "f", "i", "g", ".", "j", "s">> >>, label |-> "Vite"],
    [file |-> << <<"g", "u", "l", "p", "f", "i", "l", "e", ".", "j", "s">> >>, label |-> "Gulp"],
    [file |-> << <<"G", "r", "u", "n", "t", "f", "i", "l", "e", ".", "j", "s">> >>, label |-> "Grunt"],
    [file |-> << <<"p", "o", "s", "t", "c", "s", "s", ".", "c", "o", "n", "f", "i", "g", ".", "j", "s">> >>, label |-> "PostCSS"],
    [file |-> << <<"t", "a", "i", "l", "w", "i", "n", "d", ".", "c", "o", "n", "f", "i", "g", ".", "j", "s">> >>, label |-> "Tailwind CSS"],
    [file |-> << <<".", "b", "a", "b", "e", "l", "r", "c">> >>, label |-> "Babel"],
    [file |-> << <<"b", "a", "b", "e", "l", ".", "c", "o", "n", "f", "i", "g", ".", "j", "s">> >>, label |-> "Babel"],
    [file |-> << <<"t", "s", "c", "o", "n", "f", "i", "g", ".", "j", "s", "o", "n">> >>, label |-> "TypeScript"],
    [file |-> << <<".", "s", "t", "y", "l", "e", "l", "i", "n", "t", "r", "c">> >>, label |-> "Stylelint"],
    [file |-> << <<".", "e", "s", "l", "i", "n", "t", "r", "c">> >>, label |-> "ESLint"],
    [file |-> << <<"s", "t", "o", "r", "y", "b", "o", "o", "k">>, <<"m", "a", "i", "n", ".", "j", "s">> >>, label |-> "Storybook"] >>

lookForKeywords == <<
    [keyword |-> <<"r", "e", "a", "c", "t">>, label |-> "React"],
    [keyword |-> <<"v", "u", "e">>, label |-> "Vue"],
    [keyword |-> <<"n", "e", "x", "t">>, label |-> "Next.js"],
    [keyword |-> <<"n", "u", "x", "t">>, label |-> "Nuxt.js"],
    [keyword |-> <<"l", "i", "t">>, label |-> "Lit"] >>

sourceDirs == { << <<"s", "r", "c">> >>, << <<"c", "o", "m", "p", "o", "n", "e", "n", "t", "s">> >>, << <<"j", "s">> >>, << <<"s", "c", "r", "i", "p", "t", "s">> >> }

\* ------------------------------------------------------------ manifest

\* A parsed package.json. An optional object (dependencies, devDependencies,
\* engines) is [present, map]; map is a function from its keys.
Absent == [present |-> FALSE, map |-> <<>>]
Obj(m) == [present |-> TRUE, map |-> m]

\* obj?.[key] is truthy
HasTruthy(o, key) == o.present /\ key \in DOMAIN o.map /\ o.map[key] # ""

\* The labels detectStacksFromFiles adds from the marker table
MarkerLabels(t) ==
    { stackMatchers[i].label : i \in { j \in DOMAIN stackMatchers : ExistsSync(t, stackMatchers[j].file) } }

\* The labels detectStacksFromFiles adds from the script files of sourceDirs
KeywordLabels(t) ==
    UNION { UNION { { lookForKeywords[k].label :
                        k \in { j \in DOMAIN lookForKeywords :
                                  Includes(ReadFile(t, Append(dir, name)), lookForKeywords[j].keyword) } }
                    : name \in { n \in ReadDir(t, dir) :
                                   IsFile(t, Append(dir, n)) /\ EndsWith(n, <<".", "j", "s">>) } }
            : dir \in { d \in sourceDirs : ExistsSync(t, d) } }

\* detectStacksFromFiles, for a manifest pkg that readPackageJson returned
detectStacksFromFiles(t, pkg) ==
    MarkerLabels(t)
      \cup (IF HasTruthy(pkg.dependencies, "bootstrap") \/ HasTruthy(pkg.devDependencies, "bootstrap")
              THEN {"Bootstrap"} ELSE {})
      \cup (IF scanForFiles(t, <<".", "s", "c", "s", "s">>) # {} THEN {"SCSS (Sass)"} ELSE {})
      \cup KeywordLabels(t)

\* ------------------------------------------------------------ manifest loading

\* What a file holds: nothing (missing), text that is not JSON, or a JSON
\* document. NoJson fills the json field of the first two.
NoJson == [name |-> "", dependencies |-> Absent, devDependencies |-> Absent, engines |-> Absent]
MissingFile == [kind |-> "missing", json |-> NoJson]
InvalidFile == [kind |-> "invalid", json |-> NoJson]
NullFile == [kind |-> "null", json |-> NoJson]
JsonFile(j) == [kind |-> "json", json |-> j]

\* readJson: the parsed document, or null when reading or parsing throws.
\* A file holding the JSON text `null` parses to null too.
readJson(file) ==
    IF file.kind = "json" THEN [null |-> FALSE, value |-> file.json]
    ELSE [null |-> TRUE, value |-> NoJson]

\* readPackageJson without its process.exit(1)
readPackageJsonNoExit(file) == [exits |-> FALSE, value |-> readJson(file).value]

\* readPackageJson: process.exit(1) when readJson gives null, else the manifest
readPackageJson(file) == [exits |-> readJson(file).null, value |-> readJson(file).value]

\* ------------------------------------------------------------ npm outdated

\* JSON.parse of the subprocess's stdout: throws on empty or unparsable text
JSONparse(stdout) ==
    IF stdout.kind = "json" THEN [threw |-> FALSE, value |-> stdout.value]
    ELSE [threw |-> TRUE, value |-> <<>>]

\* getOutdatedPackages, given the subprocess's exit status and stdout.
\* execSync throws on a non-zero status, with err.stdout the captured stdout;
\* the SyntaxError thrown by the first JSON.parse has no stdout property.
getOutdatedPackages(status, stdout) ==
    IF status = 0
      THEN IF JSONparse(stdout).threw THEN [threw |-> FALSE, value |-> <<>>]
           ELSE JSONparse(stdout)
      ELSE IF stdout.kind # "empty" THEN JSONparse(stdout)
           ELSE [threw |-> FALSE, value |-> <<>>]

\* ------------------------------------------------------------ recommendation

\* v.match(/^>=\d/)
MatchesGe(v) == Len(v) >= 3 /\ v[1] = ">" /\ v[2] = "=" /\ v[3] \in Digits

\* a.replace(/[^\d.]/g, '')
StripNonNumeric(v) == SelectSeq(v, LAMBDA c : c \in Digits \cup {"."})

RECURSIVE LeadingDigits(_)
LeadingDigits(s) ==
    IF s # <<>> /\ Head(s) \in Digits THEN <<Head(s)>> \o LeadingDigits(Tail(s)) ELSE <<>>

DigitValue(c) == CHOOSE n \in 0..9 : ToString(n) = c

RECURSIVE DigitsValue(_)
DigitsValue(ds) ==
    IF ds = <<>> THEN 0 ELSE 10 * DigitsValue(SubSeq(ds, 1, Len(ds) - 1)) + DigitValue(ds[Len(ds)])

\* parseFloat of a string of digits and dots: the longest prefix of the form
\* digits [. digits]; NaN when that prefix holds no digit. The value is
\* int + 0.frac, kept as the integer part and the fraction's digits.
parseFloat(s) ==
    LET ip == LeadingDigits(s)
        rest == SubSeq(s, Len(ip) + 1, Len(s))
        fp == IF rest # <<>> /\ Head(rest) = "." THEN LeadingDigits(Tail(rest)) ELSE <<>>
    IN  IF ip = <<>> /\ fp = <<>> THEN [nan |-> TRUE, int |-> 0, frac |-> <<>>]
        ELSE [nan |-> FALSE, int |-> DigitsValue(ip), frac |-> fp]

RECURSIVE PadZeros(_, _)
PadZeros(ds, n) == IF Len(ds) >= n THEN ds ELSE PadZeros(Append(ds, "0"), n)

\* The sign of x - y for two parseFloat results; 0 when the difference is NaN
FloatSign(x, y) ==
    LET n == IF Len(x.frac) >= Len(y.frac) THEN Len(x.frac) ELSE Len(y.frac)
        xf == DigitsValue(PadZeros(x.frac, n))
        yf == DigitsValue(PadZeros(y.frac, n))
    IN  IF x.nan \/ y.nan THEN 0
        ELSE IF x.int # y.int THEN (IF x.int > y.int THEN 1 ELSE -1)
        ELSE IF xf # yf THEN (IF xf > yf THEN 1 ELSE -1)
        ELSE 0

\* The comparator handed to sort: the sign of bNum - aNum
compareVersions(a, b) ==
    FloatSign(parseFloat(StripNonNumeric(b)), parseFloat(StripNonNumeric(a)))

\* Array.prototype.sort is stable: x, which followed every element of acc in
\* the input, goes before the first element it must precede.
RECURSIVE InsertSorted(_, _)
InsertSorted(acc, x) ==
    IF acc = <<>> THEN <<x>>
    ELSE IF compareVersions(x, Head(acc)) < 0 THEN <<x>> \o acc
    ELSE <<Head(acc)>> \o InsertSorted(Tail(acc), x)

RECURSIVE SortVersions(_)
SortVersions(vs) ==
    IF vs = <<>> THEN <<>>
    ELSE InsertSorted(SortVersions(SubSeq(vs, 1, Len(vs) - 1)), vs[Len(vs)])

\* recommendFromVersions without the `|| '>=18.0.0'` of its last line
recommendNoFallback(versions) ==
    LET sorted == SortVersions(SelectSeq(versions, MatchesGe))
    IN  IF versions = <<>> THEN <<">", "=", "1", "8", ".", "0", ".", "0">>
        ELSE IF sorted = <<>> THEN <<>>
        ELSE sorted[1]

\* The end of getRecommendedNodeVersionFromPackages, after the lookups
recommendFromVersions(versions) ==
    LET sorted == SortVersions(SelectSeq(versions, MatchesGe))
    IN  IF versions = <<>> THEN <<">", "=", "1", "8", ".", "0", ".", "0">>
        ELSE IF sorted = <<>> THEN <<">", "=", "1", "8", ".", "0", ".", "0">>
        ELSE sorted[1]

\* ------------------------------------------------------------ updated manifest

\* JSON.parse(JSON.stringify(pkg)) of a document that JSON.parse produced
CopyObj(o) == [present |-> o.present, map |-> [k \in DOMAIN o.map |-> o.map[k]]]
DeepCopy(pkg) ==
    [name |-> pkg.name,
     dependencies |-> CopyObj(pkg.dependencies),
     devDependencies |-> CopyObj(pkg.devDependencies),
     engines |-> CopyObj(pkg.engines)]

SetKey(o, key, val) == [o EXCEPT !.map = [k \in DOMAIN o.map |-> IF k = key THEN val ELSE o.map[k]]]

\* One iteration of the loop of createUpdatedPackageJson
bumpEntry(updated, entry) ==
    IF HasTruthy(updated.dependencies, entry.name)
      THEN [updated EXCEPT !.dependencies = SetKey(@, entry.name, entry.latest)]
    ELSE IF HasTruthy(updated.devDependencies, entry.name)
      THEN [updated EXCEPT !.devDependencies = SetKey(@, entry.name, entry.latest)]
    ELSE updated

RECURSIVE bumpAll(_, _)
bumpAll(updated, entries) ==
    IF entries = <<>> THEN updated
    ELSE bumpAll(bumpEntry(updated, Head(entries)), Tail(entries))

\* updated.engines = { ...(updated.engines || {}), node: recommendedNode }
setEnginesNode(updated, recommendedNode) ==
    [updated EXCEPT !.engines =
        Obj([k \in (DOMAIN updated.engines.map) \cup {"node"} |->
               IF k = "node" THEN recommendedNode ELSE updated.engines.map[k]])]

\* The document createUpdatedPackageJson writes
updatedManifest(pkg, entries, recommendedNode) ==
    setEnginesNode(bumpAll(DeepCopy(pkg), entries), recommendedNode)

\* createUpdatedPackageJson writing over the manifest
originalFileName == "package.json"

\* The file createUpdatedPackageJson writes to
updatedFileName == "package-updated.json"

\* ------------------------------------------------------------ advisory

\* The advisory text askAI resolves to: the fixed placeholder, the failure
\* text followed by err.message, or the trimmed content of the first choice.
\* The warning sign that opens the placeholder and the failure text is left
\* out of the message strings.
NoAdvice == [kind |-> "none", message |-> "", content |-> <<>>]
Placeholder == [kind |-> "placeholder", message |-> "Skipping AI suggestions (no API key found).", content |-> <<>>]
Failed(message) == [kind |-> "failed", message |-> message, content |-> <<>>]
Content(text) == [kind |-> "content", message |-> "", content |-> text]

\* askAISettled with a catch that drops err.message
askAISettledNoMessage(outcome) ==
    IF outcome.kind = "error" \/ outcome.choices = <<>> \/ outcome.choices[1].null
      THEN Failed("")
    ELSE Content(Trim(outcome.choices[1].content))

\* askAI once openai.chat.completions.create has settled (hasOpenAIKey holds).
\* The outcome is a thrown error with its message, or a response with its
\* choices, each choice the message content or null.
askAISettled(outcome) ==
    IF outcome.kind = "error" THEN Failed(outcome.message)
    ELSE IF outcome.choices = <<>>
      THEN Failed("Cannot read properties of undefined (reading 'message')")
    ELSE IF outcome.choices[1].null
      THEN Failed("Cannot read properties of null (reading 'trim')")
    ELSE Content(Trim(outcome.choices[1].content))

NoOutcome == [kind |-> "none", message |-> "", choices |-> <<>>]

\* askAI without the hasOpenAIKey test of its first line
askAINoKeyTest(key, outcome) == [called |-> TRUE, text |-> askAISettled(outcome)]

\* askAI: whether it calls the API, and the text it resolves to
askAI(key, outcome) ==
    IF ~key THEN [called |-> FALSE, text |-> Placeholder]
    ELSE [called |-> TRUE, text |-> askAISettled(outcome)]

\* ------------------------------------------------------------ inputs

ManifestNames == {"a", "bootstrap"}
OutdatedNames == {"a", "b", "bootstrap"}

DepObjects == {Absent} \cup { Obj([n \in S |-> "1.0.0"]) : S \in SUBSET ManifestNames }

EnginesObjects ==
    { Absent,
      Obj([k \in {"node"} |-> <<">", "=", "2", "0", ".", "0", ".", "0">>]),
      Obj([k \in {"npm"} |-> <<">", "=", "9">>]),
      Obj([k \in {"node", "npm"} |-> IF k = "node" THEN <<"^", "1", "6">> ELSE <<">", "=", "9">>]) }

Manifests ==
    { [name |-> "theme", dependencies |-> d, devDependencies |-> v, engines |-> e] :
        d \in DepObjects, v \in DepObjects, e \in EnginesObjects }

PackageFiles == {MissingFile, InvalidFile, NullFile} \cup { JsonFile(m) : m \in Manifests }

Entry(n) == [name |-> n, current |-> "1.0.0", latest |-> "2.0.0"]

RECURSIVE SeqsOver(_, _)
SeqsOver(S, n) ==
    IF n = 0 THEN { <<>> }
    ELSE LET shorter == SeqsOver(S, n - 1)
         IN  shorter \cup { Append(q, x) : q \in shorter, x \in S }

HasDistinctNames(q) == \A i, j \in DOMAIN q : q[i].name = q[j].name => i = j

\* The mapping a JSON object parses to, as its entries in key order
OutdatedMappings ==
    { q \in SeqsOver({ Entry(n) : n \in OutdatedNames }, MaxOutdated) : HasDistinctNames(q) }

Stdouts ==
    { [kind |-> "empty", value |-> <<>>], [kind |-> "garbage", value |-> <<>>] }
      \cup { [kind |-> "json", value |-> m] : m \in OutdatedMappings }

\* What getPackageJson(dep, { version: latest }) settles to: a rejection, or
\* metadata without or with engines.node
Responses ==
    { [kind |-> "error", node |-> <<>>], [kind |-> "noengines", node |-> <<>>] }
      \cup { [kind |-> "node", node |-> c] : c \in { <<">", "=", "1", "8", ".", "2", ".", "0">>, <<">", "=", "1", "8", ".", "1", "2", ".", "0">>, <<"^", "2", "0", ".", "1", ".", "0">> } }

AIOutcomes ==
    { [kind |-> "error", message |-> "Connection error.", choices |-> <<>>],
      [kind |-> "response", message |-> "", choices |-> <<>>],
      [kind |-> "response", message |-> "", choices |-> << [null |-> TRUE, content |-> <<>>] >>],
      [kind |-> "response", message |-> "", choices |-> << [null |-> FALSE, content |-> <<" ", "o", "k", " ">>] >>] }

File(path, content) == [path |-> path, content |-> content]

TreeFiles ==
    { File(<< <<"w", "e", "b", "p", "a", "c", "k", ".", "c", "o", "n", "f", "i", "g", ".", "j", "s">> >>, <<"x">>),
      File(<< <<".", "b", "a", "b", "e", "l", "r", "c">> >>, <<"x">>),
      File(<< <<"b", "a", "b", "e", "l", ".", "c", "o", "n", "f", "i", "g", ".", "j", "s">> >>, <<"x">>),
      File(<< <<"s", "t", "o", "r", "y", "b", "o", "o", "k">>, <<"m", "a", "i", "n", ".", "j", "s">> >>, <<"x">>),
      File(<< <<"m", "a", "i", "n", ".", "j", "s">> >>, <<"r", "e", "a", "c", "t">>),
      File(<< <<"s", "t", "y", "l", "e", ".", "s", "c", "s", "s">> >>, <<"x">>),
      File(<< <<"t", "h", "e", "m", "e", ".", "s", "c", "s", "s">>, <<"r", "e", "a", "d", "m", "e", ".", "t", "x", "t">> >>, <<"x">>),
      File(<< <<"n", "o", "d", "e", "_", "m", "o", "d", "u", "l", "e", "s">>, <<"s", "t", "y", "l", "e", ".", "s", "c", "s", "s">> >>, <<"x">>),
      File(<< <<"s", "r", "c">>, <<"v", "e", "n", "d", "o", "r">>, <<"s", "t", "y", "l", "e", ".", "s", "c", "s", "s">> >>, <<"x">>),
      File(<< <<"s", "r", "c">>, <<"c", "s", "s">>, <<"s", "t", "y", "l", "e", ".", "s", "c", "s", "s">> >>, <<"x">>),
      File(<< <<"s", "r", "c">>, <<"a", "p", "p", ".", "j", "s">> >>, <<"s", "p", "l", "i", "t">>),
      File(<< <<"c", "o", "m", "p", "o", "n", "e", "n", "t", "s">>, <<"u", "i", ".", "j", "s">> >>, <<"r", "e", "a", "c", "t">>),
      File(<< <<"s", "r", "c">>, <<"l", "i", "b">>, <<"d", "e", "e", "p", ".", "j", "s">> >>, <<"v", "u", "e">>),
      File(<< <<"l", "i", "b">>, <<"a", "p", "p", ".", "j", "s">> >>, <<"v", "u", "e">>),
      File(<< <<"j", "s">>, <<"a", "p", "p", ".", "t", "s">> >>, <<"v", "u", "e">>),
      File(<< <<"s", "c", "r", "i", "p", "t", "s">>, <<"x", ".", "j", "s">> >>, <<"p", "l", "a", "i", "n">>) }

Trees(n) == { t \in SUBSET TreeFiles : Cardinality(t) <= n }

\* The project trees of a whole run
RunTrees ==
    { {}, { File(<< <<"t", "s", "c", "o", "n", "f", "i", "g", ".", "j", "s", "o", "n">> >>, <<"x">>), File(<< <<"s", "r", "c">>, <<"a", "p", "p", ".", "j", "s">> >>, <<"n", "u", "x", "t">>) } }

\* ------------------------------------------------------------ state

VARIABLES
    hasOpenAIKey,     \* !!process.env.OPENAI_API_KEY
    files,            \* package.json and package-updated.json in the working directory
    tree,             \* the rest of the project tree
    pc,               \* where runAnalysis is
    pkg,              \* runAnalysis's pkg
    outdated,         \* runAnalysis's outdated
    stack,            \* runAnalysis's stack
    idx,              \* the entry getRecommendedNodeVersionFromPackages's loop is at
    versions,         \* getRecommendedNodeVersionFromPackages's versions
    warned,           \* the packages a console.warn was printed for
    recommendedNode,  \* runAnalysis's recommendedNode
    printed,          \* the sections printed, in order
    aiOutcome,        \* what openai.chat.completions.create settled to
    aiResponse,       \* runAnalysis's aiResponse
    exitCode,         \* the process's exit code; -1 while it runs
    calls,            \* the external calls made, in order
    writes            \* the files written, in order

vars == << hasOpenAIKey, files, tree, pc, pkg, outdated, stack, idx, versions, warned,
           recommendedNode, printed, aiOutcome, aiResponse, exitCode, calls, writes >>

Loaded(packageFile, t, key) ==
    /\ hasOpenAIKey = key
    /\ files = [n \in {"package.json", "package-updated.json"} |->
                  IF n = "package.json" THEN packageFile ELSE MissingFile]
    /\ tree = t
    /\ pkg = NoJson
    /\ outdated = <<>>
    /\ stack = {}
    /\ idx = 1
    /\ versions = <<>>
    /\ warned = <<>>
    /\ recommendedNode = <<>>
    /\ printed = IF key THEN <<>> ELSE << "no-key-warning" >>
    /\ aiOutcome = NoOutcome
    /\ aiResponse = NoAdvice
    /\ exitCode = -1
    /\ calls = <<>>
    /\ writes = <<>>

Init ==
    /\ pc = "start"
    /\ \E f \in PackageFiles, t \in RunTrees, key \in BOOLEAN : Loaded(f, t, key)

\* process.exit(1), or the rejection of runAnalysis's promise
Exit(code, at) ==
    /\ exitCode' = code
    /\ pc' = at

\* readPackageJson at the head of runAnalysis
ReadPackageJson ==
    /\ pc = "start"
    /\ LET r == readPackageJson(files["package.json"])
       IN  IF r.exits
             THEN /\ printed' = printed \o << "analyzing", "package-json-not-found" >>
                  /\ Exit(1, "exited")
                  /\ pkg' = pkg
             ELSE /\ printed' = Append(printed, "analyzing")
                  /\ pkg' = r.value
                  /\ pc' = "outdated"
                  /\ exitCode' = exitCode
    /\ UNCHANGED << hasOpenAIKey, files, tree, outdated, stack, idx, versions, warned,
                    recommendedNode, aiOutcome, aiResponse, calls, writes >>

\* getOutdatedPackages: the subprocess ends with some status and stdout
GetOutdatedPackages ==
    /\ pc = "outdated"
    /\ \E status \in {0, 1}, stdout \in Stdouts :
         LET r == getOutdatedPackages(status, stdout)
         IN  IF r.threw
               THEN /\ Exit(1, "crashed")
                    /\ outdated' = outdated
               ELSE /\ outdated' = r.value
                    /\ pc' = "detect"
                    /\ exitCode' = exitCode
    /\ calls' = Append(calls, << "npm", "outdated --json" >>)
    /\ UNCHANGED << hasOpenAIKey, files, tree, pkg, stack, idx, versions, warned,
                    recommendedNode, printed, aiOutcome, aiResponse, writes >>

\* detectStacksFromFiles, which reads package.json again
DetectStacks ==
    /\ pc = "detect"
    /\ LET r == readPackageJson(files["package.json"])
       IN  IF r.exits
             THEN /\ printed' = Append(printed, "package-json-not-found")
                  /\ Exit(1, "exited")
                  /\ stack' = stack
             ELSE /\ stack' = detectStacksFromFiles(tree, r.value)
                  /\ pc' = "lookup"
                  /\ UNCHANGED << printed, exitCode >>
    /\ UNCHANGED << hasOpenAIKey, files, tree, pkg, outdated, idx, versions, warned,
                    recommendedNode, aiOutcome, aiResponse, calls, writes >>

\* One iteration of getRecommendedNodeVersionFromPackages's loop: the lookup
\* of outdated[idx] settles
Lookup ==
    /\ pc = "lookup"
    /\ idx <= Len(outdated)
    /\ \E resp \in Responses :
         /\ versions' = IF resp.kind = "node" /\ resp.node # <<>>
                          THEN Append(versions, resp.node) ELSE versions
         /\ warned' = IF resp.kind = "error" THEN Append(warned, outdated[idx].name) ELSE warned
    /\ calls' = Append(calls, << "registry", outdated[idx].name >>)
    /\ idx' = idx + 1
    /\ UNCHANGED << hasOpenAIKey, files, tree, pc, pkg, outdated, stack, recommendedNode,
                    printed, aiOutcome, aiResponse, exitCode, writes >>

\* fs.writeFileSync(path.join(projectRoot, name), JSON.stringify(doc, null, 2))
writeFileSync(fs, name, doc) == [fs EXCEPT ![name] = JsonFile(doc)]

\* The rest of getRecommendedNodeVersionFromPackages and runAnalysis up to the
\* call of askAI: the report, and createUpdatedPackageJson when
\* Object.keys(outdated).length is not 0
Report ==
    /\ pc = "lookup"
    /\ idx > Len(outdated)
    /\ recommendedNode' = recommendFromVersions(versions)
    /\ IF Len(outdated) # 0
         THEN /\ files' = writeFileSync(files, updatedFileName,
                                        updatedManifest(pkg, outdated, recommendedNode'))
              /\ writes' = Append(writes, updatedFileName)
              /\ printed' = printed \o << "stack", "recommended", "outdated", "created" >>
         ELSE /\ printed' = printed \o << "stack", "recommended", "up-to-date" >>
              /\ UNCHANGED << files, writes >>
    /\ pc' = "ask"
    /\ UNCHANGED << hasOpenAIKey, tree, pkg, outdated, stack, idx, versions, warned,
                    aiOutcome, aiResponse, exitCode, calls >>

\* askAI and the end of runAnalysis
AskAI ==
    /\ pc = "ask"
    /\ \E outcome \in AIOutcomes :
         LET r == askAI(hasOpenAIKey, outcome)
         IN  /\ aiResponse' = r.text
             /\ aiOutcome' = IF r.called THEN outcome ELSE NoOutcome
             /\ calls' = IF r.called
                           THEN Append(calls, << "openai", "chat.completions.create" >>)
                           ELSE calls
    /\ printed' = Append(printed, "ai")
    /\ Exit(0, "done")
    /\ UNCHANGED << hasOpenAIKey, files, tree, pkg, outdated, stack, idx, versions, warned,
                    recommendedNode, writes >>

Next ==
    \/ ReadPackageJson
    \/ GetOutdatedPackages
    \/ DetectStacks
    \/ Lookup
    \/ Report
    \/ AskAI

Spec == Init /\ [][Next]_vars

\* ------------------------------------------------------------ detection alone

\* detectStacksFromFiles over the project trees of at most MaxTreeFiles files
InitDetect ==
    /\ pc = "detect"
    /\ \E m \in Manifests, t \in Trees(MaxTreeFiles) : Loaded(JsonFile(m), t, FALSE)

NextDetect == DetectStacks

SpecDetect == InitDetect /\ [][NextDetect]_vars

\* ------------------------------------------------------------ properties

Last(q) == q[Len(q)]
CallsTo(service) == SelectSeq(calls, LAMBDA c : c[1] = service)
Reported == pc \in {"ask", "done"}
Manifest == files["package.json"].json
Written == files["package-updated.json"]
DeclaresNode(m) == m.engines.present /\ "node" \in DOMAIN m.engines.map
IsOutdated(n) == \E i \in DOMAIN outdated : outdated[i].name = n
LatestOf(n) == outdated[CHOOSE i \in DOMAIN outdated : outdated[i].name = n].latest

\* C1: with package.json missing or not valid JSON the run ends at the
\* manifest-loading step with exit code 1: it never gets past that step, so
\* the npm subprocess, the registry and the chat API are never called and
\* package-updated.json is not written.
C1_FatalManifest ==
    files["package.json"].kind \in {"missing", "invalid"} =>
        /\ pc \in {"start", "exited"}
        /\ pc = "exited" => exitCode = 1
        /\ exitCode \in {-1, 1}
        /\ calls = <<>>
        /\ writes = <<>>
        /\ Written = MissingFile

C1_Witness ==
    /\ files["package.json"].kind = "invalid"
    /\ pc = "exited"
    /\ exitCode = 1

\* C2: getOutdatedPackages never fails: whatever the subprocess's status and
\* stdout, it returns a mapping and the run goes on to the next stage.
C2_NeverFails == pc # "crashed"

\* C3: when the manifest declares engines.node, the recommendation printed
\* and written is that declared constraint.
C3_PrefersManifest ==
    (Reported /\ DeclaresNode(pkg)) =>
        /\ recommendedNode = pkg.engines.map["node"]
        /\ writes # <<>> => Written.json.engines.map["node"] = pkg.engines.map["node"]

\* Whether object u of the written manifest is object o of the original with
\* the entries named in the outdated mapping set to their latest value
Bumped(u, o) ==
    /\ u.present = o.present
    /\ DOMAIN u.map = DOMAIN o.map
    /\ \A n \in DOMAIN o.map : u.map[n] = IF IsOutdated(n) THEN LatestOf(n) ELSE o.map[n]

\* C4: the written package-updated.json has every dependency and
\* devDependency named in the outdated mapping at its latest value (a name
\* listed in both included), engines.node at the recommendation, and
\* everything else as in the original manifest.
C4_WrittenManifest ==
    writes # <<>> =>
        /\ Written.kind = "json"
        /\ Written.json.name = pkg.name
        /\ Bumped(Written.json.dependencies, pkg.dependencies)
        /\ Bumped(Written.json.devDependencies, pkg.devDependencies)
        /\ Written.json.engines.present
        /\ DOMAIN Written.json.engines.map = (DOMAIN pkg.engines.map) \cup {"node"}
        /\ \A k \in DOMAIN Written.json.engines.map :
             Written.json.engines.map[k] =
               IF k = "node" THEN recommendedNode ELSE pkg.engines.map[k]

C5_Writes ==
    /\ writes \in { <<>>, << "package-updated.json" >> }
    /\ writes # <<>> <=> (Reported /\ Len(outdated) >= 1)
    /\ writes = <<>> => Written = MissingFile
    /\ (Reported /\ Len(outdated) = 0) =>
         \E i \in DOMAIN printed : printed[i] = "up-to-date"

\* C5: package.json is never written; package-updated.json is written, once,
\* exactly when the outdated mapping has an entry; with an empty mapping no
\* file is written and the run reports that all packages are up to date.
C5_FileEffects ==
    /\ []C5_Writes
    /\ [][files'["package.json"] = files["package.json"]]_vars

C5_Witness ==
    /\ pc = "done"
    /\ writes = << "package-updated.json" >>
    /\ Written.kind = "json"
    /\ Len(outdated) = 2

\* C6 as claimed: without the credential no network call (registry lookup or
\* chat completion) is made at any point of the run, and the advisory text is
\* the placeholder.
C6_NoNetworkCall ==
    ~hasOpenAIKey =>
        /\ CallsTo("registry") = <<>>
        /\ CallsTo("openai") = <<>>
        /\ pc = "done" => aiResponse.kind = "placeholder"

\* C6 as amended: without the credential no chat-completion call is made at
\* any point of the run and the advisory text, printed last, is the
\* placeholder; the registry lookups of the outdated packages are still made.
C6_NoChatCall ==
    ~hasOpenAIKey =>
        /\ CallsTo("openai") = <<>>
        /\ pc = "done" =>
             /\ aiResponse.kind = "placeholder"
             /\ aiResponse.message = "Skipping AI suggestions (no API key found)."
             /\ Last(printed) = "ai"
             /\ Len(CallsTo("registry")) = Len(outdated)

C6_Witness ==
    /\ ~hasOpenAIKey
    /\ pc = "done"
    /\ Len(outdated) >= 1
    /\ CallsTo("registry") # <<>>

AIFailed(o) ==
    \/ o.kind = "error"
    \/ o.kind = "response" /\ o.choices = <<>>
    \/ o.kind = "response" /\ o.choices # <<>> /\ o.choices[1].null

\* C7: with the credential set, a chat-completion call that fails (a thrown
\* error, or a response without a usable first choice) gives the failure
\* text with the failure's description; the advisory section is printed last,
\* the run ends with exit code 0, and the call is made once.
C7_FailureIsAdvisory ==
    /\ Len(CallsTo("openai")) <= 1
    /\ (hasOpenAIKey /\ pc = "done" /\ AIFailed(aiOutcome)) =>
         /\ aiResponse.kind = "failed"
         /\ aiResponse.message # ""
         /\ aiOutcome.kind = "error" => aiResponse.message = aiOutcome.message
         /\ Last(printed) = "ai"
         /\ exitCode = 0
         /\ Len(CallsTo("openai")) = 1

C7_Witness ==
    /\ hasOpenAIKey
    /\ pc = "done"
    /\ aiOutcome.kind = "error"
    /\ aiResponse.kind = "failed"
    /\ Len(outdated) >= 1

NoMarkerFile(t) ==
    \A i \in DOMAIN stackMatchers : \A f \in t : ~IsPrefix(stackMatchers[i].file, f.path)

NoBootstrap(m) ==
    /\ "bootstrap" \notin DOMAIN m.dependencies.map
    /\ "bootstrap" \notin DOMAIN m.devDependencies.map

\* No file named *.scss outside the ignored directories
NoStylesheet(t) ==
    \A f \in t :
        ~ /\ EndsWith(Last(f.path), <<".", "s", "c", "s", "s">>)
          /\ \A i \in 1..(Len(f.path) - 1) :
               f.path[i] \notin { <<"n", "o", "d", "e", "_", "m", "o", "d", "u", "l", "e", "s">>, <<".", "g", "i", "t">>, <<"d", "i", "s", "t">>, <<"b", "u", "i", "l", "d">>, <<"v", "e", "n", "d", "o", "r">> }

\* No script directly in src, components, js or scripts that holds a keyword
NoKeywordScript(t) ==
    \A f \in t :
        ~ /\ Len(f.path) = 2
          /\ f.path[1] \in { <<"s", "r", "c">>, <<"c", "o", "m", "p", "o", "n", "e", "n", "t", "s">>, <<"j", "s">>, <<"s", "c", "r", "i", "p", "t", "s">> }
          /\ EndsWith(f.path[2], <<".", "j", "s">>)
          /\ \E w \in { <<"r", "e", "a", "c", "t">>, <<"v", "u", "e">>, <<"n", "e", "x", "t">>, <<"n", "u", "x", "t">>, <<"l", "i", "t">> } : Includes(f.content, w)

\* C8 as claimed: with a valid manifest and no marker file present the
\* detected stack is empty, whatever the manifest and the rest of the tree.
C8_EmptyWithoutMarkers ==
    (pc = "lookup" /\ NoMarkerFile(tree)) => stack = {}

\* C8 as amended: with a valid manifest, no marker file, no bootstrap
\* dependency, no .scss file outside the ignored directories and no keyword
\* in a script of the source directories, the detected stack is empty.
C8_EmptyWithoutEvidence ==
    (/\ pc = "lookup"
     /\ NoMarkerFile(tree)
     /\ NoBootstrap(Manifest)
     /\ NoStylesheet(tree)
     /\ NoKeywordScript(tree)) => stack = {}

C8_Witness ==
    /\ pc = "lookup"
    /\ stack = {}
    /\ Manifest.dependencies.present /\ "a" \in DOMAIN Manifest.dependencies.map
    /\ Cardinality(tree) = 2
    /\ \E f \in tree : EndsWith(Last(f.path), <<".", "s", "c", "s", "s">>) /\ Len(f.path) = 3
    /\ \E f \in tree : Includes(f.content, <<"v", "u", "e">>)

\* C9: with no engines.node in the manifest and no collected constraint
\* matching '>=', the recommendation is '>=18.0.0'; a failed lookup is warned
\* about and skipped, and every outdated package is still looked up.
C9_Fallback ==
    /\ pc = "lookup" => Len(CallsTo("registry")) = idx - 1
    /\ Reported =>
         /\ Len(CallsTo("registry")) = Len(outdated)
         /\ \A i \in DOMAIN outdated : CallsTo("registry")[i][2] = outdated[i].name
         /\ (/\ ~DeclaresNode(pkg)
             /\ \A i \in DOMAIN versions : ~MatchesGe(versions[i])) =>
              recommendedNode = <<">", "=", "1", "8", ".", "0", ".", "0">>
    /\ warned # <<>> => exitCode # 1

C9_Witness ==
    /\ pc = "done"
    /\ ~DeclaresNode(pkg)
    /\ Len(outdated) = 2
    /\ warned = << outdated[1].name >>
    /\ versions = << <<"^", "2", "0", ".", "1", ".", "0">> >>
    /\ recommendedNode = <<">", "=", "1", "8", ".", "0", ".", "0">>

\* The parts of a dotted version, as numbers
RECURSIVE DottedParts(_)
DottedParts(s) ==
    LET d == LeadingDigits(s)
        rest == SubSeq(s, Len(d) + 1, Len(s))
    IN  IF rest = <<>> THEN << DigitsValue(d) >>
        ELSE << DigitsValue(d) >> \o DottedParts(Tail(rest))

\* major.minor.patch of a '>=' constraint
VersionOf(v) == DottedParts(SubSeq(v, 3, Len(v)))

VersionLess(a, b) ==
    \/ a[1] < b[1]
    \/ a[1] = b[1] /\ a[2] < b[2]
    \/ a[1] = b[1] /\ a[2] = b[2] /\ a[3] < b[3]

\* C10: a recommendation derived from registry metadata is one of the
\* collected constraints matching '>=', and no other collected '>='
\* constraint has a higher version (by major, then minor, then patch).
C10_HighestVersion ==
    (Reported /\ \E i \in DOMAIN versions : MatchesGe(versions[i])) =>
        /\ \E i \in DOMAIN versions : versions[i] = recommendedNode
        /\ MatchesGe(recommendedNode)
        /\ \A i \in DOMAIN versions :
             MatchesGe(versions[i]) =>
               ~VersionLess(VersionOf(recommendedNode), VersionOf(versions[i]))

====
